---- MODULE Spec2Model ----
(***************************************************************************)
(* Model of the analytics report pipeline of powerdemon.ai:                *)
(*   scripts/yandex_direct_stats.py   get_report, generate_report_md       *)
(*   scripts/yandex_metrica_stats.py  generate_report_md, append_to_csv    *)
(* The state machines share the module, each with its own specification:   *)
(*   SpecReport    one call of get_report against a report service         *)
(*   SpecCsv       a sequence of append_to_csv calls on one store file     *)
(*   SpecRender    rows collected, then one call of generate_report_md     *)
(*   SpecPipeline  a payload parsed by parse_tsv and rendered              *)
(*   SpecRerender  the same rows rendered twice while the clock runs       *)
(*   SpecMain      one run of main of either script                        *)
(***************************************************************************)
EXTENDS Integers, Sequences, FiniteSets, TLC

VARIABLES
    \* ---- get_report (yandex_direct_stats.py) ----
    rpc,        \* position in get_report: "start" | "polling" | "done"
    sent,       \* number of requests.post calls made so far
    responses,  \* the responses received, in order: [status, text]
    loop_i,     \* iterations of "for _ in range(10)" completed
    outcome,    \* how the call ended: [kind, status, text]
    \* ---- append_to_csv (yandex_metrica_stats.py) ----
    csv_exists, \* csv_path.exists()
    csv_lines,  \* the lines of the store file, in file order
    traffic,    \* the records passed to the last append_to_csv call
    csv_prev,   \* the file as it was when the last call began: [exists, lines]
    csv_ret,    \* what the last call returned
    csv_out,    \* what the last call printed: [kind, n]
    \* ---- generate_report_md (both scripts) ----
    script,     \* which script runs: "direct" | "metrica"
    phase,      \* "payload" | "collect" | "rendered" | "raised"
    rows,       \* Direct: the parsed TSV rows
    sources,    \* Metrica: the traffic-source rows
    summary,    \* Direct: the summary line [impressions, clicks, ctr]
    table,      \* Direct: the group table, in printed order
    src_table,  \* Metrica: the traffic-source table, in printed order
    queries,    \* Metrica: the search-query rows
    sections,   \* the sections of the rendered report, in printed order
    stamp,      \* the minute printed in the report's "Дата формирования" line
    \* ---- parse_tsv (yandex_direct_stats.py) ----
    tsv,        \* the payload get_report returned: its lines, each its fields
    malformed,  \* the lines parse_tsv reported as malformed
    \* ---- the clock, and a rendering kept for comparison ----
    now,        \* datetime.now(), in half minutes
    prev_report,\* the report the rendering before the last one produced
    \* ---- main (both scripts) ----
    mpc,        \* position in main
    days,       \* args.days
    date_from,  \* the first day asked for, as a day number (today = Today)
    date_to,    \* the last day asked for
    requested,  \* the date ranges of the requests sent: [date_from, date_to]
    report_file,\* the report file: "absent" | "old" | "written"
    console,    \* what main printed, in order
    exit_code,  \* the exit status, Running while the run lasts
    at_start    \* the report file and the store file as the run found them

vars == <<rpc, sent, responses, loop_i, outcome,
          csv_exists, csv_lines, traffic, csv_prev, csv_ret, csv_out,
          script, phase, rows, sources, summary, table, src_table,
          queries, sections, stamp, tsv, malformed, now, prev_report,
          mpc, days, date_from, date_to, requested, report_file, console,
          exit_code, at_start>>

reportVars == <<rpc, sent, responses, loop_i, outcome>>
csvVars    == <<csv_exists, csv_lines, traffic, csv_prev, csv_ret, csv_out>>
renderVars == <<script, phase, rows, sources, summary, table, src_table,
                queries, sections, stamp>>
parseVars  == <<tsv, malformed>>
clockVars  == <<now, prev_report>>
mainVars   == <<mpc, days, date_from, date_to, requested, report_file, console,
                exit_code, at_start>>

(***************************************************************************)
(* get_report                                                              *)
(***************************************************************************)

\* response.status_code == 200: the report is ready
READY == 200
\* response.status_code == 201: the report is being built
PENDING == 201
\* range(10): the polling loop's iteration count
MaxPolls == 10

\* The status codes the report service answers with; 400 stands for every
\* status other than 200 and 201.
Statuses == {READY, PENDING, 400}

\* The service's answer to the n-th request: its status and a body that is
\* the answer's own (the n-th body is told apart from every other by n).
Respond(n, s) == [status |-> s, text |-> n]

NoOutcome == [kind |-> "none", status |-> 0, text |-> 0]

\* return response.text, with response the variable the last post assigned
StaleText(resps) == resps[1].text
ReturnText(resps) == resps[Len(resps)].text

Returned(resps) ==
    [kind |-> "returned", status |-> resps[Len(resps)].status, text |-> ReturnText(resps)]

\* raise Exception(f"API Error {response.status_code}: {response.text}")
ApiError(resps) ==
    [kind |-> "api_error", status |-> resps[Len(resps)].status,
     text |-> resps[Len(resps)].text]

\* raise Exception("Отчёт не сформировался за 50 секунд")
TimeoutError == [kind |-> "timeout", status |-> 0, text |-> 0]

\* for _ in range(10): the loop body runs while fewer than 10 iterations ran
InRangeOffByOne(i) == i <= MaxPolls
InRange(i) == i < MaxPolls

\* lines 66-70, 79-80: the first post and the three-way branch on its status
get_report_first(s) ==
    /\ rpc = "start"
    /\ LET resps == Append(responses, Respond(sent + 1, s)) IN
       /\ sent' = sent + 1
       /\ responses' = resps
       /\ loop_i' = 0
       /\ IF s = READY
          THEN rpc' = "done" /\ outcome' = Returned(resps)
          ELSE IF s = PENDING
          THEN rpc' = "polling" /\ outcome' = outcome
          ELSE rpc' = "done" /\ outcome' = ApiError(resps)

\* lines 73-77: one iteration of the loop: sleep, post again, return on 200;
\* every other status falls through to the next iteration
get_report_poll(s) ==
    /\ rpc = "polling"
    /\ InRange(loop_i)
    /\ LET resps == Append(responses, Respond(sent + 1, s)) IN
       /\ sent' = sent + 1
       /\ responses' = resps
       /\ loop_i' = loop_i + 1
       /\ IF s = READY
          THEN rpc' = "done" /\ outcome' = Returned(resps)
          ELSE rpc' = "polling" /\ outcome' = outcome

\* line 78: the loop ran out: raise the timeout
get_report_no_raise ==
    /\ rpc = "polling"
    /\ ~InRange(loop_i)
    /\ rpc' = "done"
    /\ UNCHANGED <<sent, responses, loop_i, outcome>>
get_report_timeout ==
    /\ rpc = "polling"
    /\ ~InRange(loop_i)
    /\ rpc' = "done"
    /\ outcome' = TimeoutError
    /\ UNCHANGED <<sent, responses, loop_i>>

FirstPost == \E s \in Statuses : get_report_first(s) /\ UNCHANGED <<csvVars, renderVars, parseVars, clockVars, mainVars>>
Poll == \E s \in Statuses : get_report_poll(s) /\ UNCHANGED <<csvVars, renderVars, parseVars, clockVars, mainVars>>
Timeout == get_report_timeout /\ UNCHANGED <<csvVars, renderVars, parseVars, clockVars, mainVars>>

NextReport == FirstPost \/ Poll \/ Timeout

(***************************************************************************)
(* append_to_csv                                                           *)
(* The store file is a sequence of lines, a line a sequence of fields as   *)
(* csv.DictWriter writes them (delimiter ";").  Of the six columns the     *)
(* model keeps the key column and one value column; the other four value   *)
(* columns are written and never read, exactly like the one kept.          *)
(***************************************************************************)

\* the longest traffic list one call carries
MaxBatch == 2

Dates == {"2024-05-01", "2024-05-02"}
Visits == {10, 20}

\* fieldnames = ["Дата", "Визиты", ...] (transliterated)
fieldnames == <<"Data", "Vizity">>

\* one element of the traffic list, as get_traffic_summary builds it
TrafficRecs == [date : Dates, visits : Visits]
Batches == UNION {[1..n -> TrafficRecs] : n \in 0..MaxBatch}

\* str() of a count, as the csv writer writes it
Str(n) == CASE n = 10 -> "10" [] n = 20 -> "20" [] OTHER -> "0"

\* Python values a call can return
NoneValue == [type |-> "NoneType", value |-> 0]
IntValue(n) == [type |-> "int", value |-> n]

\* csv.DictReader: the first line names the columns, every later line is a
\* row; row.get("Дата", "") is the field under the column named "Дата"
KeyColumn(header) == {i \in 1..Len(header) : header[i] = fieldnames[1]}
RowGet(header, line) ==
    IF \E i \in KeyColumn(header) : i <= Len(line)
    THEN line[CHOOSE i \in KeyColumn(header) : i <= Len(line)]
    ELSE ""
ReadDates(lines) ==
    IF lines = <<>> THEN {}
    ELSE {RowGet(lines[1], lines[k]) : k \in 2..Len(lines)}

\* lines 168-173: the dates already in the file
existing_dates(exists, lines) == IF exists THEN ReadDates(lines) ELSE {}

\* lines 175-185: the incoming records whose date is not in existing_dates, in
\* order; existing_dates is not updated while the list is walked
RECURSIVE new_rows(_, _)
new_rows(t, existing) ==
    IF t = <<>> THEN <<>>
    ELSE LET rest == new_rows(Tail(t), existing) IN
         IF Head(t).date \notin existing
         THEN <<Head(t)>> \o rest
         ELSE rest

\* writer.writerows(new_rows): one line per row, fields in fieldnames order
RowLines(nr) == [k \in 1..Len(nr) |-> <<nr[k].date, Str(nr[k].visits)>>]

\* lines 191-195: open(csv_path, "a"), the header first when the file is new
OpenTruncate(lines, written) == written
OpenAppend(lines, written) == lines \o written

WrittenWithHeader(exists, nr) == <<fieldnames>> \o RowLines(nr)
Written(exists, nr) ==
    (IF exists THEN <<>> ELSE <<fieldnames>>) \o RowLines(nr)

\* line 196: print(f"   CSV: +{len(new_rows)} строк ...")
PrintedLenTraffic(t, nr) == Len(t)
PrintedCount(t, nr) == Len(nr)

\* lines 163-196
append_to_csv(t) ==
    LET nr == new_rows(t, existing_dates(csv_exists, csv_lines)) IN
    /\ traffic' = t
    /\ csv_prev' = [exists |-> csv_exists, lines |-> csv_lines]
    /\ csv_ret' = NoneValue
    /\ IF nr = <<>>
       THEN /\ csv_out' = [kind |-> "no_new", n |-> 0]
            /\ UNCHANGED <<csv_exists, csv_lines>>
       ELSE /\ csv_exists' = TRUE
            /\ csv_lines' = OpenAppend(csv_lines, Written(csv_exists, nr))
            /\ csv_out' = [kind |-> "added", n |-> PrintedCount(t, nr)]

Append_to_csv == \E t \in Batches : append_to_csv(t) /\ UNCHANGED <<reportVars, renderVars, parseVars, clockVars, mainVars>>

NextCsv == Append_to_csv

(***************************************************************************)
(* Python float arithmetic (IEEE 754 binary64, round to nearest, ties to   *)
(* even), as far as line 133 of yandex_direct_stats.py uses it: int / int, *)
(* float * int, and the comparison of a float with an int literal.         *)
(* A positive float is [m, e]: m its 53-bit significand as five limbs,     *)
(* most significant first, m[1] = 1 and each other limb LimbBits bits      *)
(* (53 = 1 + 4 * 13); e its exponent; its value is m * 2^(e - 52).  Zero   *)
(* is FZero.  Only non-negative values occur.                              *)
(***************************************************************************)

\* bits in one limb of the significand
LimbBits == 13
\* limbs after the leading bit
Limbs == 4

Base == 2 ^ LimbBits

FZero == [m |-> <<>>, e |-> 0]

\* the number of binary digits of n > 0
RECURSIVE BitLen(_)
BitLen(n) == IF n = 0 THEN 0 ELSE 1 + BitLen(n \div 2)

\* m + 1 from limb k down to the leading limb
RECURSIVE IncFrom(_, _)
IncFrom(m, k) ==
    IF k = 1 THEN [m EXCEPT ![1] = m[1] + 1]
    ELSE IF m[k] + 1 < Base THEN [m EXCEPT ![k] = m[k] + 1]
    ELSE IncFrom([m EXCEPT ![k] = 0], k - 1)

\* the float of significand m and exponent e, one unit in the last place up
\* when up holds
RoundUp(m, e, up) ==
    IF ~up THEN [m |-> m, e |-> e]
    ELSE LET i == IncFrom(m, Limbs + 1) IN
         IF i[1] = 2
         THEN [m |-> [i EXCEPT ![1] = 1], e |-> e + 1]
         ELSE [m |-> i, e |-> e]

\* the next n limbs of the quotient r / b (r < b), then the remainder
RECURSIVE DivLimbs(_, _, _)
DivLimbs(r, b, n) ==
    IF n = 0 THEN [limbs |-> <<>>, rem |-> r]
    ELSE LET nxt == DivLimbs((r * Base) % b, b, n - 1)
         IN [limbs |-> <<(r * Base) \div b>> \o nxt.limbs, rem |-> nxt.rem]

\* a / b for b <= a < 2b, exponent e: the correctly rounded quotient
DivNormal(a, b, e) ==
    LET q == DivLimbs(a - b, b, Limbs)
        m == <<1>> \o q.limbs
        up == 2 * q.rem > b \/ (2 * q.rem = b /\ m[Limbs + 1] % 2 = 1)
    IN RoundUp(m, e, up)

\* scale a / b into [1, 2), counting the exponent
RECURSIVE DivScaled(_, _, _)
DivScaled(a, b, e) ==
    IF a < b THEN DivScaled(2 * a, b, e - 1)
    ELSE IF a >= 2 * b THEN DivScaled(a, 2 * b, e + 1)
    ELSE DivNormal(a, b, e)

\* a / b for ints a >= 0, b > 0 (true division, correctly rounded)
TrueDiv(a, b) == IF a = 0 THEN FZero ELSE DivScaled(a, b, 0)

\* the limbs of m * k from limb idx down to the leading limb, which takes the
\* last carry and is left unnormalised
RECURSIVE MulAcc(_, _, _, _)
MulAcc(m, idx, k, carry) ==
    LET t == m[idx] * k + carry IN
    IF idx = 1 THEN <<t>>
    ELSE MulAcc(m, idx - 1, k, t \div Base) \o <<t % Base>>

\* x * k for a float x and an int 0 < k < Base (k is exact as a float): the
\* exact product, shifted right by s bits to a leading 1 and rounded on the
\* bits shifted out
FMulInt(x, k) ==
    IF x = FZero THEN FZero
    ELSE LET p == MulAcc(x.m, Limbs + 1, k, 0)
             s == BitLen(p[1]) - 1
             low == 2 ^ s
             n == [j \in 1..(Limbs + 1) |->
                     IF j = 1 THEN p[1] \div low
                     ELSE (p[j - 1] % low) * (Base \div low) + p[j] \div low]
             dropped == p[Limbs + 1] % low
             up == /\ s > 0
                   /\ \/ 2 * dropped > low
                      \/ 2 * dropped = low /\ n[Limbs + 1] % 2 = 1
         IN RoundUp(n, x.e + s, up)

\* the float equal to the int 0 <= n < Base (exact)
FromInt(n) ==
    IF n = 0 THEN FZero
    ELSE LET len == BitLen(n)
             \* n shifted left to a leading 1 followed by LimbBits bits
             sh == n * 2 ^ (LimbBits + 1 - len)
         IN [m |-> [j \in 1..(Limbs + 1) |->
                       IF j = 1 THEN 1 ELSE IF j = 2 THEN sh % Base ELSE 0],
             e |-> len - 1]

\* x < y
FLess(x, y) ==
    IF y = FZero THEN FALSE
    ELSE IF x = FZero THEN TRUE
    ELSE IF x.e # y.e THEN x.e < y.e
    ELSE \E i \in 1..(Limbs + 1) :
            /\ x.m[i] < y.m[i]
            /\ \A j \in 1..(i - 1) : x.m[j] = y.m[j]

(***************************************************************************)
(* generate_report_md of yandex_direct_stats.py: summary and group table   *)
(***************************************************************************)

\* the most rows one payload carries
MaxRows == 3

\* flag = "⚠️" if ctr < 3 else "✅" if ctr > 7 else ""
CtrLow == 3
CtrHigh == 7

GroupNames == {"A", "B"}
ImpressionTexts == {"0", "100"}
ClickTexts == {"3", "7"}

\* A row is the dict parse_tsv builds with zip(headers, values): every field
\* a string.  A line that ends before the Clicks column gives a row without
\* that key.
FullRows == [AdGroupName : GroupNames, Impressions : ImpressionTexts, Clicks : ClickTexts]
ShortRows == [AdGroupName : GroupNames, Impressions : ImpressionTexts]
RowSet == FullRows \cup ShortRows

\* int() of a field's text
ParseInt(text) ==
    CASE text = "0" -> 0 [] text = "3" -> 3 [] text = "7" -> 7 [] text = "100" -> 100

\* int(r.get(k, 0))
IntField(r, k) == IF k \in DOMAIN r THEN ParseInt(r[k]) ELSE 0

\* r.get("AdGroupName", "—")
GroupOf(r) == IF "AdGroupName" \in DOMAIN r THEN r["AdGroupName"] ELSE "-"

\* sum(int(r.get(k, 0)) for r in rows)
RECURSIVE SumField(_, _)
SumField(rs, k) ==
    IF rs = <<>> THEN 0 ELSE IntField(Head(rs), k) + SumField(Tail(rs), k)

\* the value of an expression "(a / b * 100) if b > 0 else 0": the int 0 of
\* the else branch ("int0"), the quotient a / b ("ratio"), the quotient times
\* 100 ("percent"), or the ZeroDivisionError a division by 0 raises
IntZero == [kind |-> "int0", num |-> 0, den |-> 1]
Div(a, b) ==
    IF b = 0 THEN [kind |-> "ZeroDivisionError", num |-> a, den |-> b]
    ELSE [kind |-> "ratio", num |-> a, den |-> b]

\* q * 100: a quotient as a percentage
Percent(q) == IF q.kind = "ratio" THEN [q EXCEPT !.kind = "percent"] ELSE q

\* lines 112 and 133
CtrUnguarded(clicks, impressions) ==
    IF impressions >= 0 THEN Percent(Div(clicks, impressions)) ELSE IntZero
Ctr(clicks, impressions) ==
    IF impressions > 0 THEN Percent(Div(clicks, impressions)) ELSE IntZero

\* the float (or int 0) a ctr value is in Python
FloatOf(ctr) ==
    IF ctr.kind = "percent" THEN FMulInt(TrueDiv(ctr.num, ctr.den), 100) ELSE FZero

\* line 134
Flag(ctr) ==
    IF FLess(FloatOf(ctr), FromInt(CtrLow)) THEN "warn"
    ELSE IF FLess(FromInt(CtrHigh), FloatOf(ctr)) THEN "good"
    ELSE "none"

\* lines 120-127: the groups dict: its keys in insertion order, and its values
NoGroups == [order |-> <<>>, data |-> <<>>]
AddToGroups(g, r) ==
    LET gname == GroupOf(r)
        at == {k \in 1..Len(g.order) : g.order[k] = gname}
        seen == IF at = {} THEN [order |-> Append(g.order, gname),
                                 data |-> Append(g.data, [impressions |-> 0, clicks |-> 0])]
                ELSE g
        k == CHOOSE j \in 1..Len(seen.order) : seen.order[j] = gname
    IN [seen EXCEPT !.data[k] = [impressions |-> @.impressions + IntField(r, "Impressions"),
                                 clicks |-> @.clicks + IntField(r, "Clicks")]]

RECURSIVE BuildGroups(_, _)
BuildGroups(rs, g) ==
    IF rs = <<>> THEN g ELSE BuildGroups(Tail(rs), AddToGroups(g, Head(rs)))

\* groups.items()
Items(g) ==
    [k \in 1..Len(g.order) |->
        [gname |-> g.order[k], impressions |-> g.data[k].impressions,
         clicks |-> g.data[k].clicks]]

\* sorted(..., key=volume, reverse=True) on pairs <<volume, item>>: Python's
\* sort is stable, also with reverse=True: items of equal volume keep the
\* order they came in
RECURSIVE InsertDesc(_, _)
InsertDesc(sorted, x) ==
    IF sorted = <<>> THEN <<x>>
    ELSE IF Head(sorted)[1] >= x[1] THEN <<Head(sorted)>> \o InsertDesc(Tail(sorted), x)
    ELSE <<x>> \o sorted

RECURSIVE SortInto(_, _)
SortInto(sorted, rest) ==
    IF rest = <<>> THEN sorted ELSE SortInto(InsertDesc(sorted, Head(rest)), Tail(rest))

SortedDesc(pairs) == SortInto(<<>>, pairs)

\* line 132
SortedGroups(g) ==
    LET its == Items(g)
        srt == SortedDesc([k \in 1..Len(its) |-> <<its[k].clicks, its[k]>>])
    IN [k \in 1..Len(srt) |-> srt[k][2]]

\* lines 132-135: one table row per group
GroupTable(g) ==
    LET srt == SortedGroups(g) IN
    [k \in 1..Len(srt) |->
        LET ctr == Ctr(srt[k].clicks, srt[k].impressions) IN
        [gname |-> srt[k].gname, impressions |-> srt[k].impressions,
         clicks |-> srt[k].clicks, ctr |-> ctr,
         flag |-> IF ctr.kind = "ZeroDivisionError" THEN "none" ELSE Flag(ctr)]]

\* lines 109-117: the summary line
Summary(rs) ==
    LET total_impressions == SumField(rs, "Impressions")
        total_clicks == SumField(rs, "Clicks")
    IN [kind |-> "totals", impressions |-> total_impressions, clicks |-> total_clicks,
        ctr |-> Ctr(total_clicks, total_impressions)]

\* the clock counts half minutes
TicksPerMinute == 2

\* datetime.now().strftime('%Y-%m-%d %H:%M'): the clock's minute, as printed;
\* the seconds are cut off
Strftime(t) == t \div TicksPerMinute

NoSummary == [kind |-> "none", impressions |-> 0, clicks |-> 0, ctr |-> IntZero]
\* lines 104-106: "> Нет данных за указанный период. ..."
NoData == [kind |-> "no_data", impressions |-> 0, clicks |-> 0, ctr |-> IntZero]

\* whether an exception left generate_report_md
Raises(sm, tb) ==
    \/ sm.ctr.kind = "ZeroDivisionError"
    \/ \E k \in 1..Len(tb) : tb[k].ctr.kind = "ZeroDivisionError"

\* lines 98-135 of yandex_direct_stats.py
generate_report_md_direct ==
    /\ script = "direct"
    /\ phase = "collect"
    /\ IF rows = <<>>
       THEN /\ phase' = "rendered" /\ summary' = NoData /\ table' = <<>>
            /\ sections' = <<"title", "no_data">> /\ stamp' = Strftime(now)
       ELSE LET sm == Summary(rows)
                tb == GroupTable(BuildGroups(rows, NoGroups))
            IN IF Raises(sm, tb)
               THEN /\ phase' = "raised" /\ summary' = NoSummary /\ table' = <<>>
                    /\ UNCHANGED <<sections, stamp>>
               ELSE /\ phase' = "rendered" /\ summary' = sm /\ table' = tb
                    /\ sections' = <<"title", "summary", "groups", "days", "footer">>
                    /\ stamp' = Strftime(now)
    /\ UNCHANGED <<script, rows, sources, src_table, queries>>

\* lines 91-94: rows.append(row)
parse_tsv_row(r) ==
    /\ script = "direct"
    /\ phase = "collect"
    /\ Len(rows) < MaxRows
    /\ rows' = Append(rows, r)
    /\ UNCHANGED <<script, phase, sources, summary, table, src_table,
                   queries, sections, stamp>>

(***************************************************************************)
(* generate_report_md of yandex_metrica_stats.py: the traffic-source table *)
(***************************************************************************)

\* the most traffic sources one answer carries
MaxSources == 3

SourceNames == {"ad", "organic"}
SourceRows == [source : SourceNames, visits : Visits]

\* line 148
SortedSources(srcs) ==
    LET srt == SortedDesc([k \in 1..Len(srcs) |-> <<srcs[k].visits, srcs[k]>>])
    IN [k \in 1..Len(srt) |-> srt[k][2]]

\* lines 119-121 and 143-149 of yandex_metrica_stats.py
generate_report_md_metrica ==
    /\ script = "metrica"
    /\ phase = "collect"
    /\ phase' = "rendered"
    /\ stamp' = Strftime(now)
    /\ IF traffic = <<>>
       THEN /\ summary' = NoData /\ src_table' = <<>>
            /\ sections' = <<"title", "no_data">>
       ELSE /\ summary' = [NoSummary EXCEPT !.kind = "totals"]
            /\ src_table' = IF sources # <<>> THEN SortedSources(sources) ELSE <<>>
            /\ sections' = <<"title", "summary", "days">>
                            \o (IF sources # <<>> THEN <<"sources">> ELSE <<>>)
                            \o (IF queries # <<>> THEN <<"queries">> ELSE <<>>)
                            \o <<"footer">>
    /\ UNCHANGED <<script, rows, sources, table, queries>>

\* lines 83-91 of yandex_metrica_stats.py: rows.append({...})
get_traffic_sources_row(r) ==
    /\ script = "metrica"
    /\ phase = "collect"
    /\ Len(sources) < MaxSources
    /\ sources' = Append(sources, r)
    /\ UNCHANGED <<script, phase, rows, summary, table, src_table,
                   queries, sections, stamp>>

AddRow == \E r \in RowSet : parse_tsv_row(r) /\ UNCHANGED <<reportVars, csvVars, parseVars, clockVars, mainVars>>
AddSource == \E r \in SourceRows : get_traffic_sources_row(r) /\ UNCHANGED <<reportVars, csvVars, parseVars, clockVars, mainVars>>
RenderDirect == generate_report_md_direct /\ UNCHANGED <<reportVars, csvVars, parseVars, clockVars, mainVars>>
RenderMetrica == generate_report_md_metrica /\ UNCHANGED <<reportVars, csvVars, parseVars, clockVars, mainVars>>

NextRender == AddRow \/ AddSource \/ RenderDirect \/ RenderMetrica

\* the traffic list of a Metrica run that renders: empty or one day
RenderTraffic == {<<>>, <<[date |-> "2024-05-01", visits |-> 10]>>}

\* the query list of a Metrica run that renders: empty or one query
RenderQueries == {<<>>, <<[query |-> "q", visits |-> 10]>>}

(***************************************************************************)
(* parse_tsv                                                               *)
(* The payload is its lines (the text split on "\n"), a line its fields    *)
(* (the line split on "\t"); the empty text is the one line <<"">>.  Of    *)
(* the eight columns asked for the model keeps the three the renderer      *)
(* reads.  No field carries white space, so tsv_data.strip() only removes  *)
(* empty lines at both ends: the payload's final "\n" among them.          *)
(***************************************************************************)

\* the most data lines one payload carries
MaxDataLines == 2

\* FieldNames of the report request, in order
TsvHeader == <<"AdGroupName", "Impressions", "Clicks">>

EmptyLine == <<"">>

\* the lines after the header: empty, cut short, complete, or one field long
TsvDataLines ==
    {EmptyLine}
    \cup {<<g>> : g \in GroupNames}
    \cup {<<g, i>> : g \in GroupNames, i \in ImpressionTexts}
    \cup {<<g, i, c>> : g \in GroupNames, i \in ImpressionTexts, c \in ClickTexts}
    \cup {<<g, i, c, "9">> : g \in GroupNames, i \in ImpressionTexts, c \in ClickTexts}

Payloads ==
    {<<EmptyLine>>}
    \cup {<<TsvHeader>> \o d : d \in UNION {[1..n -> TsvDataLines] : n \in 0..MaxDataLines}}

\* tsv_data.strip().split("\n"): the lines without the empty ones at both
\* ends; "".split("\n") is [""]
RECURSIVE DropTrailingEmpty(_)
DropTrailingEmpty(text) ==
    IF text # <<>> /\ text[Len(text)] = EmptyLine
    THEN DropTrailingEmpty(SubSeq(text, 1, Len(text) - 1))
    ELSE text

RECURSIVE DropLeadingEmpty(_)
DropLeadingEmpty(text) ==
    IF text # <<>> /\ Head(text) = EmptyLine THEN DropLeadingEmpty(Tail(text)) ELSE text

StripNothing(text) == text
StripSplit(text) ==
    LET kept == DropLeadingEmpty(DropTrailingEmpty(text))
    IN IF kept = <<>> THEN <<EmptyLine>> ELSE kept

\* dict(zip(headers, values)): the pairs up to the shorter of the two
Zip(headers, values) ==
    LET m == IF Len(headers) < Len(values) THEN Len(headers) ELSE Len(values)
    IN [name \in {headers[j] : j \in 1..m} |->
            values[CHOOSE j \in 1..m : headers[j] = name]]

\* lines 85-95: one row per line after the first
parse_tsv_rows(text) ==
    LET lines == StripSplit(text)
    IN [k \in 1..(Len(lines) - 1) |-> Zip(lines[1], lines[k + 1])]

\* lines 83-95: parse_tsv returns the rows and nothing else; it raises nothing
\* and reports no line
parse_tsv ==
    /\ script = "direct"
    /\ phase = "payload"
    /\ phase' = "collect"
    /\ rows' = parse_tsv_rows(tsv)
    /\ malformed' = <<>>
    /\ UNCHANGED tsv
    /\ UNCHANGED <<script, sources, summary, table, src_table, queries, sections, stamp>>

ParseTsv == parse_tsv /\ UNCHANGED <<reportVars, csvVars, clockVars, mainVars>>

\* the latest moment of the clock
MaxClock == 3

\* time passes between two calls
Tick ==
    /\ now < MaxClock
    /\ now' = now + 1
    /\ UNCHANGED prev_report
    /\ UNCHANGED <<reportVars, csvVars, renderVars, parseVars, mainVars>>

\* the report in hand, as the caller of generate_report_md holds it
Report == [rendered |-> TRUE, stamp |-> stamp, sections |-> sections,
           summary |-> summary, table |-> table, src_table |-> src_table]

\* generate_report_md is called once more with the arguments of the first
\* call; the first report is kept for comparison
RenderAgain ==
    /\ phase = "rendered"
    /\ ~prev_report.rendered
    /\ prev_report' = Report
    /\ phase' = "collect"
    /\ UNCHANGED now
    /\ UNCHANGED <<script, rows, sources, summary, table, src_table, queries,
                   sections, stamp>>
    /\ UNCHANGED <<reportVars, csvVars, parseVars, mainVars>>

NextRerender == ParseTsv \/ RenderDirect \/ RenderMetrica \/ Tick \/ RenderAgain

NextPipeline == ParseTsv \/ RenderDirect \/ AddSource \/ RenderMetrica

(***************************************************************************)
(* main of both scripts                                                    *)
(* A day is a day number; strftime("%Y-%m-%d") of two days orders as the   *)
(* days do.  What main prints is a sequence of line names; the line of the *)
(* except handler carries the exception it prints.                         *)
(***************************************************************************)

\* the largest |args.days| tried; argparse type=int takes every integer
MaxDays == 2
DaysRange == (0 - MaxDays)..MaxDays

\* datetime.now(), as a day number
Today == 10

\* timedelta(days=d) before day t
Before(t, d) == t - d

\* Metrica, lines 218-219; Direct, lines 175-176
DateTo(sc) == IF sc = "metrica" THEN Before(Today, 1) ELSE Today
DateFrom(sc, d) == Before(Today, d)

\* the payloads a Direct run is answered with
MainPayloads == {<<EmptyLine>>, <<TsvHeader>>, <<TsvHeader, <<"A", "100", "7">>>>}
\* the source lists a Metrica run is answered with
MainSources == {<<>>, <<[source |-> "ad", visits |-> 10]>>}

\* the store file a run finds: absent, or the header and one record
FoundStores == {[exists |-> FALSE, lines |-> <<>>],
                [exists |-> TRUE, lines |-> <<fieldnames, <<"2024-05-01", "10">>>>]}

\* print(...)
Printed(line) == Append(console, line)

\* the exit status of a run that has not ended
Running == 0 - 1

\* sys.exit(1) in the except handler
sys_exit(code) == code

\* the positions where an exception is on its way to the handler
Excepts == {"except_fetch", "except_render", "except_write", "except_store"}
\* print(f"Ошибка: {e}")
ErrorLine(pc) ==
    CASE pc = "except_fetch" -> "error_fetch"
      [] pc = "except_render" -> "error_render"
      [] pc = "except_write" -> "error_write"
      [] pc = "except_store" -> "error_store"

\* Metrica 209-216, Direct 171-173: no credentials, no run
main_credentials ==
    /\ mpc = "start"
    /\ \E ok \in BOOLEAN :
         IF ok THEN /\ mpc' = "dates"
                    /\ UNCHANGED <<console, exit_code>>
         ELSE /\ mpc' = "exited"
              /\ console' = Printed("no_credentials")
              /\ exit_code' = sys_exit(1)
    /\ UNCHANGED <<days, date_from, date_to, requested, report_file, at_start>>

\* Metrica 218-221, Direct 175-180: the period, from args.days as given
main_dates ==
    /\ mpc = "dates"
    /\ date_to' = DateTo(script)
    /\ date_from' = DateFrom(script, days)
    /\ console' = Printed("period")
    /\ mpc' = "fetch"
    /\ UNCHANGED <<days, requested, report_file, exit_code, at_start>>

\* the request log: every request carries date_from and date_to
Request == Append(requested, [date_from |-> date_from, date_to |-> date_to])

\* where main goes when get_report has acted
AfterReportSwallowed(pc, oc) == IF pc # "done" THEN "fetch" ELSE "parse"
AfterReport(pc, oc) ==
    IF pc # "done" THEN "fetch"
    ELSE IF oc.kind = "returned" THEN "parse" ELSE "except_fetch"

\* Direct line 183: tsv_data = get_report(...), one post at a time
main_get_report ==
    /\ script = "direct"
    /\ mpc = "fetch"
    /\ \/ \E s \in Statuses : get_report_first(s) /\ requested' = Request
       \/ \E s \in Statuses : get_report_poll(s) /\ requested' = Request
       \/ get_report_timeout /\ requested' = requested
    /\ mpc' = AfterReport(rpc', outcome')
    /\ tsv' \in (IF mpc' = "parse" THEN MainPayloads ELSE {tsv})
    /\ UNCHANGED malformed
    /\ UNCHANGED <<days, date_from, date_to, report_file, console, exit_code, at_start>>
    /\ UNCHANGED <<csvVars, renderVars, clockVars>>

\* Direct lines 184-185
main_parse_tsv ==
    /\ mpc = "parse"
    /\ parse_tsv
    /\ mpc' = "render"
    /\ console' = Printed("rows_count")
    /\ UNCHANGED <<days, date_from, date_to, requested, report_file, exit_code, at_start>>
    /\ UNCHANGED <<reportVars, csvVars, clockVars>>

\* Metrica lines 224-227: the three fetches, each one request that the
\* service answers or that raises
main_fetch ==
    /\ script = "metrica"
    /\ mpc \in {"fetch", "fetch_sources", "fetch_queries"}
    /\ requested' = Request
    /\ \E ok \in BOOLEAN :
         IF ~ok
         THEN /\ mpc' = "except_fetch"
              /\ UNCHANGED <<traffic, sources, queries, console>>
         ELSE CASE mpc = "fetch" ->
                     /\ traffic' \in Batches
                     /\ mpc' = "fetch_sources"
                     /\ UNCHANGED <<sources, queries, console>>
                [] mpc = "fetch_sources" ->
                     /\ sources' \in MainSources
                     /\ mpc' = "fetch_queries"
                     /\ UNCHANGED <<traffic, queries, console>>
                [] mpc = "fetch_queries" ->
                     /\ queries' \in RenderQueries
                     /\ mpc' = "render"
                     /\ console' = Printed("days_with_data")
                     /\ UNCHANGED <<traffic, sources>>
    /\ UNCHANGED <<days, date_from, date_to, report_file, exit_code, at_start>>
    /\ UNCHANGED <<csv_exists, csv_lines, csv_prev, csv_ret, csv_out>>
    /\ UNCHANGED <<script, phase, rows, summary, table, src_table, sections, stamp>>
    /\ UNCHANGED <<reportVars, parseVars, clockVars>>

\* Direct line 187, Metrica line 234
main_generate_report_md ==
    /\ mpc = "render"
    /\ \/ generate_report_md_direct
       \/ generate_report_md_metrica
    /\ mpc' = IF phase' = "raised" THEN "except_render" ELSE "write"
    /\ UNCHANGED <<days, date_from, date_to, requested, report_file, console,
                   exit_code, at_start>>
    /\ UNCHANGED <<reportVars, csvVars, parseVars, clockVars>>

\* Direct lines 190-196, Metrica lines 230-237: mkdir and write_text, which
\* succeed or raise OSError
main_write_text ==
    /\ mpc = "write"
    /\ \E ok \in BOOLEAN :
         IF ok THEN /\ report_file' = "written"
                    /\ console' = Printed("report_saved")
                    /\ mpc' = IF script = "metrica" THEN "store" ELSE "print"
         ELSE /\ mpc' = "except_write"
              /\ UNCHANGED <<report_file, console>>
    /\ UNCHANGED <<days, date_from, date_to, requested, exit_code, at_start>>
    /\ UNCHANGED <<reportVars, csvVars, renderVars, parseVars, clockVars>>

\* Metrica lines 240-242: append_to_csv(traffic, csv_path); opening the store
\* file succeeds or raises OSError, and then the file is as it was
main_append_to_csv ==
    /\ script = "metrica"
    /\ mpc = "store"
    /\ \E ok \in BOOLEAN :
         IF ok THEN /\ append_to_csv(traffic)
                    /\ console' = Printed("csv_saved")
                    /\ mpc' = "print"
         ELSE /\ csv_out' = [kind |-> "raised", n |-> 0]
              /\ csv_prev' = [exists |-> csv_exists, lines |-> csv_lines]
              /\ mpc' = "except_store"
              /\ UNCHANGED <<csv_exists, csv_lines, traffic, csv_ret, console>>
    /\ UNCHANGED <<days, date_from, date_to, requested, report_file, exit_code, at_start>>
    /\ UNCHANGED <<reportVars, renderVars, parseVars, clockVars>>

\* Direct line 199, Metrica line 244: print("\n" + report_md), and main returns
main_print_report ==
    /\ mpc = "print"
    /\ console' = Printed("report")
    /\ mpc' = "exited"
    /\ exit_code' = 0
    /\ UNCHANGED <<days, date_from, date_to, requested, report_file, at_start>>
    /\ UNCHANGED <<reportVars, csvVars, renderVars, parseVars, clockVars>>

\* Direct lines 201-203, Metrica lines 246-248: except Exception
main_except ==
    /\ mpc \in Excepts
    /\ console' = Printed(ErrorLine(mpc))
    /\ exit_code' = sys_exit(1)
    /\ mpc' = "exited"
    /\ UNCHANGED <<days, date_from, date_to, requested, report_file, at_start>>
    /\ UNCHANGED <<reportVars, csvVars, renderVars, parseVars, clockVars>>

MainCredentials == main_credentials /\ UNCHANGED <<reportVars, csvVars, renderVars, parseVars, clockVars>>
MainDates == main_dates /\ UNCHANGED <<reportVars, csvVars, renderVars, parseVars, clockVars>>

NextMain ==
    \/ MainCredentials
    \/ MainDates
    \/ main_get_report
    \/ main_parse_tsv
    \/ main_fetch
    \/ main_generate_report_md
    \/ main_write_text
    \/ main_append_to_csv
    \/ main_print_report
    \/ main_except

(***************************************************************************)
(* Specifications                                                          *)
(***************************************************************************)

\* a rendered report: the minute in its stamp line and what its sections hold
NoReport == [rendered |-> FALSE, stamp |-> 0, sections |-> <<>>,
             summary |-> NoSummary, table |-> <<>>, src_table |-> <<>>]

\* no run has looked at the files
NothingAtStart == [report_file |-> "absent", csv_exists |-> FALSE, csv_lines |-> <<>>]

\* one call of get_report; no store call, no rendering
StartReport ==
    /\ rpc = "start" /\ sent = 0 /\ responses = <<>> /\ loop_i = 0
    /\ outcome = NoOutcome
    /\ csv_exists = FALSE /\ csv_lines = <<>> /\ traffic = <<>>
    /\ csv_prev = [exists |-> FALSE, lines |-> <<>>]
    /\ csv_ret = NoneValue /\ csv_out = [kind |-> "not_called", n |-> 0]
    /\ script = "direct" /\ phase = "collect" /\ rows = <<>> /\ sources = <<>>
    /\ summary = NoSummary /\ table = <<>> /\ src_table = <<>>
    /\ queries = <<>> /\ sections = <<>> /\ stamp = 0
    /\ tsv = <<>> /\ malformed = <<>> /\ now = 0 /\ prev_report = NoReport
    /\ mpc = "idle" /\ days = 0 /\ date_from = 0 /\ date_to = 0
    /\ requested = <<>> /\ report_file = "absent" /\ console = <<>>
    /\ exit_code = Running /\ at_start = NothingAtStart

\* append_to_csv calls on a store file that is absent at first
StartCsv ==
    /\ rpc = "start" /\ sent = 0 /\ responses = <<>> /\ loop_i = 0
    /\ outcome = NoOutcome
    /\ csv_exists = FALSE /\ csv_lines = <<>> /\ traffic = <<>>
    /\ csv_prev = [exists |-> FALSE, lines |-> <<>>]
    /\ csv_ret = NoneValue /\ csv_out = [kind |-> "not_called", n |-> 0]
    /\ script = "metrica" /\ phase = "collect" /\ rows = <<>> /\ sources = <<>>
    /\ summary = NoSummary /\ table = <<>> /\ src_table = <<>>
    /\ queries = <<>> /\ sections = <<>> /\ stamp = 0
    /\ tsv = <<>> /\ malformed = <<>> /\ now = 0 /\ prev_report = NoReport
    /\ mpc = "idle" /\ days = 0 /\ date_from = 0 /\ date_to = 0
    /\ requested = <<>> /\ report_file = "absent" /\ console = <<>>
    /\ exit_code = Running /\ at_start = NothingAtStart

\* one rendering by either script
StartRender ==
    /\ rpc = "start" /\ sent = 0 /\ responses = <<>> /\ loop_i = 0
    /\ outcome = NoOutcome
    /\ csv_exists = FALSE /\ csv_lines = <<>>
    /\ csv_prev = [exists |-> FALSE, lines |-> <<>>]
    /\ csv_ret = NoneValue /\ csv_out = [kind |-> "not_called", n |-> 0]
    /\ script \in {"direct", "metrica"}
    /\ traffic \in (IF script = "metrica" THEN RenderTraffic ELSE {<<>>})
    /\ phase = "collect" /\ rows = <<>> /\ sources = <<>>
    /\ summary = NoSummary /\ table = <<>> /\ src_table = <<>>
    /\ queries \in (IF script = "metrica" THEN RenderQueries ELSE {<<>>})
    /\ sections = <<>> /\ stamp = 0
    /\ tsv = <<>> /\ malformed = <<>> /\ now = 0 /\ prev_report = NoReport
    /\ mpc = "idle" /\ days = 0 /\ date_from = 0 /\ date_to = 0
    /\ requested = <<>> /\ report_file = "absent" /\ console = <<>>
    /\ exit_code = Running /\ at_start = NothingAtStart

\* a payload parsed and rendered (Direct), or the answers rendered (Metrica)
StartPipeline ==
    /\ rpc = "start" /\ sent = 0 /\ responses = <<>> /\ loop_i = 0
    /\ outcome = NoOutcome
    /\ csv_exists = FALSE /\ csv_lines = <<>>
    /\ csv_prev = [exists |-> FALSE, lines |-> <<>>]
    /\ csv_ret = NoneValue /\ csv_out = [kind |-> "not_called", n |-> 0]
    /\ script \in {"direct", "metrica"}
    /\ traffic \in (IF script = "metrica" THEN RenderTraffic ELSE {<<>>})
    /\ queries \in (IF script = "metrica" THEN RenderQueries ELSE {<<>>})
    /\ tsv \in (IF script = "direct" THEN Payloads ELSE {<<>>})
    /\ phase = (IF script = "direct" THEN "payload" ELSE "collect")
    /\ rows = <<>> /\ sources = <<>>
    /\ summary = NoSummary /\ table = <<>> /\ src_table = <<>>
    /\ sections = <<>> /\ stamp = 0
    /\ malformed = <<>> /\ now = 0 /\ prev_report = NoReport
    /\ mpc = "idle" /\ days = 0 /\ date_from = 0 /\ date_to = 0
    /\ requested = <<>> /\ report_file = "absent" /\ console = <<>>
    /\ exit_code = Running /\ at_start = NothingAtStart

SpecReport == StartReport /\ [][NextReport]_vars
SpecPipeline == StartPipeline /\ [][NextPipeline]_vars

\* the same rows rendered twice while the clock runs
StartRerender ==
    /\ rpc = "start" /\ sent = 0 /\ responses = <<>> /\ loop_i = 0
    /\ outcome = NoOutcome
    /\ csv_exists = FALSE /\ csv_lines = <<>>
    /\ csv_prev = [exists |-> FALSE, lines |-> <<>>]
    /\ csv_ret = NoneValue /\ csv_out = [kind |-> "not_called", n |-> 0]
    /\ script \in {"direct", "metrica"}
    /\ traffic \in (IF script = "metrica" THEN RenderTraffic ELSE {<<>>})
    /\ queries \in (IF script = "metrica" THEN RenderQueries ELSE {<<>>})
    /\ sources \in (IF script = "metrica"
                     THEN {<<>>, <<[source |-> "ad", visits |-> 10]>>} ELSE {<<>>})
    /\ tsv \in (IF script = "direct" THEN Payloads ELSE {<<>>})
    /\ phase = (IF script = "direct" THEN "payload" ELSE "collect")
    /\ rows = <<>>
    /\ summary = NoSummary /\ table = <<>> /\ src_table = <<>>
    /\ sections = <<>> /\ stamp = 0
    /\ malformed = <<>> /\ now = 0 /\ prev_report = NoReport
    /\ mpc = "idle" /\ days = 0 /\ date_from = 0 /\ date_to = 0
    /\ requested = <<>> /\ report_file = "absent" /\ console = <<>>
    /\ exit_code = Running /\ at_start = NothingAtStart

SpecRerender == StartRerender /\ [][NextRerender]_vars

\* one run of either script, from the command line to the exit
StartMain ==
    /\ rpc = "start" /\ sent = 0 /\ responses = <<>> /\ loop_i = 0
    /\ outcome = NoOutcome
    /\ script \in {"direct", "metrica"}
    /\ \E st \in (IF script = "metrica" THEN FoundStores
                   ELSE {[exists |-> FALSE, lines |-> <<>>]}) :
         /\ csv_exists = st.exists /\ csv_lines = st.lines
         /\ csv_prev = st
    /\ traffic = <<>>
    /\ csv_ret = NoneValue /\ csv_out = [kind |-> "not_called", n |-> 0]
    /\ phase = (IF script = "direct" THEN "payload" ELSE "collect")
    /\ rows = <<>> /\ sources = <<>> /\ queries = <<>>
    /\ summary = NoSummary /\ table = <<>> /\ src_table = <<>>
    /\ sections = <<>> /\ stamp = 0
    /\ tsv = <<>> /\ malformed = <<>> /\ now = 0 /\ prev_report = NoReport
    /\ mpc = "start"
    /\ days \in DaysRange
    /\ date_from = 0 /\ date_to = 0
    /\ requested = <<>>
    /\ report_file \in {"absent", "old"}
    /\ console = <<>>
    /\ exit_code = Running
    /\ at_start = [report_file |-> report_file, csv_exists |-> csv_exists,
                   csv_lines |-> csv_lines]

SpecMain == StartMain /\ [][NextMain]_vars
FairSpecReport == SpecReport /\ WF_vars(NextReport)
SpecCsv == StartCsv /\ [][NextCsv]_vars
SpecRender == StartRender /\ [][NextRender]_vars

(***************************************************************************)
(* Properties of get_report                                                *)
(***************************************************************************)

\* the service answered PENDING to requests 1..k-1 and READY to request k
PendingThenReady(k) ==
    /\ Len(responses) >= k
    /\ responses[k].status = READY
    /\ \A j \in 1..(k - 1) : responses[j].status = PENDING

AllPending == \A j \in 1..Len(responses) : responses[j].status = PENDING

\* C1: for every k in 1..10, when the service answers PENDING on attempts
\* 1..k-1 and READY on attempt k, get_report has returned, what it returned
\* is the body of answer k, and no request followed request k.
C1_ReadyAtKReturnsItsPayload ==
    \A k \in 1..MaxPolls :
        PendingThenReady(k) =>
            /\ rpc = "done"
            /\ outcome.kind = "returned"
            /\ outcome.text = Respond(k, READY).text
            /\ sent = k
            /\ Len(responses) = k

\* C1 witness: READY comes on the tenth attempt, after nine PENDING answers
C1_Witness ==
    /\ PendingThenReady(MaxPolls)
    /\ outcome.kind = "returned"

\* C2 (as amended): one call sends the request at most 11 times, the first
\* submission and at most 10 resubmissions while polling; the polling loop's
\* counter never exceeds 10.
C2_AtMostOnePlusTenRequests ==
    /\ sent <= 1 + MaxPolls
    /\ sent = Len(responses)
    /\ loop_i <= MaxPolls
    /\ rpc = "polling" => sent = 1 + loop_i

\* C2 as stated: at most 10 submissions in all, the first one counted
C2_AtMostTenRequests == sent <= MaxPolls

\* C2 witness: the eleventh request has been sent
C2_Witness == sent = 1 + MaxPolls /\ loop_i = MaxPolls

\* C3 as stated: a FAILED answer (neither 200 nor 201) on any attempt is the
\* last one, and the call ends raising the service's error with that answer's
\* status and body; the call ends in the timeout error only when every answer
\* was PENDING.
C3_FailedEndsPolling ==
    /\ \A j \in 1..Len(responses) :
          responses[j].status \notin {READY, PENDING} =>
              /\ Len(responses) = j
              /\ rpc = "done"
              /\ outcome = [kind |-> "api_error", status |-> responses[j].status,
                            text |-> responses[j].text]
    /\ outcome.kind = "timeout" => AllPending

Terminal ==
    /\ rpc = "done"
    /\ outcome.kind \in {"returned", "api_error", "timeout"}

\* C4: whatever the service answers, get_report ends, in one of the three
\* outcomes, which then stays; a report that is PENDING on every attempt ends
\* in the timeout error once the loop has run out.
C4_EndsInOneOutcome ==
    /\ <>Terminal
    /\ [][Terminal => outcome' = outcome /\ rpc' = rpc]_vars
    /\ [](rpc = "done" /\ AllPending => outcome.kind = "timeout" /\ loop_i = MaxPolls)

\* C4 witness: every answer was PENDING and the call ended in the timeout
C4_Witness ==
    /\ rpc = "done"
    /\ AllPending
    /\ outcome.kind = "timeout"
    /\ sent = 1 + MaxPolls

(***************************************************************************)
(* Properties of append_to_csv                                             *)
(***************************************************************************)

Called == csv_out.kind # "not_called"

\* the number of data lines the last call added (the header is no data line)
AddedLines ==
    Len(csv_lines) - Len(csv_prev.lines)
        - (IF csv_exists /\ ~csv_prev.exists THEN 1 ELSE 0)

\* C5 as stated: every date key is in at most one data line of the file.
C5_OneLinePerDate ==
    \A i, j \in 2..Len(csv_lines) :
        csv_lines[i][1] = csv_lines[j][1] => i = j

\* C6: a call leaves every line the file had where it was: the file before
\* the call is a prefix of the file after it, so a stored date keeps its
\* stored values whatever the incoming record for it carries.
C6_ExistingLinesKept ==
    Called =>
        /\ csv_prev.exists => csv_exists
        /\ Len(csv_prev.lines) <= Len(csv_lines)
        /\ \A k \in 1..Len(csv_prev.lines) : csv_lines[k] = csv_prev.lines[k]

\* C6 witness: the call carried other values for a date already stored, and
\* appended a line for another date
C6_Witness ==
    /\ Called
    /\ Len(csv_lines) > Len(csv_prev.lines)
    /\ \E k \in 1..Len(traffic), j \in 2..Len(csv_prev.lines) :
          /\ traffic[k].date = csv_prev.lines[j][1]
          /\ Str(traffic[k].visits) # csv_prev.lines[j][2]

\* C7 (as amended): append_to_csv returns no value (None); the number of
\* records it appended in the call is what it prints: the "no new data"
\* message when it appended none, otherwise "+N" with N the lines added.
C7_ReturnsNonePrintsCount ==
    Called =>
        /\ csv_ret = NoneValue
        /\ AddedLines = 0 => csv_out = [kind |-> "no_new", n |-> 0]
        /\ AddedLines > 0 => csv_out = [kind |-> "added", n |-> AddedLines]

\* C7 as stated: the call returns the number of records it appended
C7_ReturnsAppendedCount == Called => csv_ret = IntValue(AddedLines)

\* C7 witness: a call that skipped one incoming record and appended another
C7_Witness ==
    /\ Called
    /\ AddedLines = 1
    /\ Len(traffic) = 2

(***************************************************************************)
(* Properties of generate_report_md                                        *)
(***************************************************************************)

\* the sum of a field over the rows at the indices S
RECURSIVE SumAt(_, _)
SumAt(S, k) ==
    IF S = {} THEN 0
    ELSE LET i == CHOOSE x \in S : TRUE IN IntField(rows[i], k) + SumAt(S \ {i}, k)

RowsOf(gname) == {i \in 1..Len(rows) : GroupOf(rows[i]) = gname}

\* what the CTR of a bucket is to be
ExpectedCtr(clicks, impressions) ==
    IF impressions = 0 THEN IntZero
    ELSE [kind |-> "percent", num |-> clicks, den |-> impressions]

DirectRendered == script = "direct" /\ phase = "rendered" /\ rows # <<>>

\* C8: the CTR of the summary and of every group row is 0 when the bucket's
\* summed impressions are 0 and summed clicks / summed impressions * 100
\* otherwise, and no rows make the computation raise.
C8_CtrZeroOrRatio ==
    /\ phase # "raised"
    /\ DirectRendered =>
          /\ summary.ctr = ExpectedCtr(SumAt(1..Len(rows), "Clicks"),
                                       SumAt(1..Len(rows), "Impressions"))
          /\ {table[k].gname : k \in 1..Len(table)} = {GroupOf(rows[i]) : i \in 1..Len(rows)}
          /\ \A k \in 1..Len(table) :
                table[k].ctr = ExpectedCtr(SumAt(RowsOf(table[k].gname), "Clicks"),
                                           SumAt(RowsOf(table[k].gname), "Impressions"))

\* C8 witness: one group has clicks and no impressions, another has both
C8_Witness ==
    /\ DirectRendered
    /\ \E j, k \in 1..Len(table) :
          /\ table[j].impressions = 0 /\ table[j].clicks > 0
          /\ table[j].ctr = IntZero
          /\ table[k].ctr.kind = "percent"

\* C9 as stated: a group row carries the warning flag exactly when its CTR
\* is below 3%, the positive flag exactly when its CTR is above 7%, and no
\* flag otherwise: exactly 3.0% and exactly 7.0% are not flagged.  The CTR
\* is clicks * 100 / impressions, 0 without impressions.
C9_FlagsAtStrictThresholds ==
    DirectRendered =>
        \A k \in 1..Len(table) :
            LET c == table[k].clicks
                i == table[k].impressions
                below == i = 0 \/ 100 * c < CtrLow * i
                above == i > 0 /\ 100 * c > CtrHigh * i
            IN table[k].flag = (IF below THEN "warn" ELSE IF above THEN "good" ELSE "none")

\* the order of the group keys
KeyRank(name) ==
    CASE name = "A" -> 1 [] name = "B" -> 2 [] name = "ad" -> 1 [] name = "organic" -> 2
      [] OTHER -> 0

\* C10 as stated: the rows of a ranked table are in descending order of the
\* volume (clicks, visits), rows of equal volume in ascending order of key.
C10_RankedByVolumeThenKey ==
    phase = "rendered" =>
        /\ \A k \in 1..(Len(table) - 1) :
              \/ table[k].clicks > table[k + 1].clicks
              \/ /\ table[k].clicks = table[k + 1].clicks
                 /\ KeyRank(table[k].gname) <= KeyRank(table[k + 1].gname)
        /\ \A k \in 1..(Len(src_table) - 1) :
              \/ src_table[k].visits > src_table[k + 1].visits
              \/ /\ src_table[k].visits = src_table[k + 1].visits
                 /\ KeyRank(src_table[k].source) <= KeyRank(src_table[k + 1].source)

(***************************************************************************)
(* Properties of parse_tsv                                                 *)
(***************************************************************************)

Parsed == script = "direct" /\ phase \in {"collect", "rendered", "raised"}

\* the data lines of the payload: the lines after the header, the empty
\* lines at the end of the text left out
DataLinesOf(text) == Tail(DropLeadingEmpty(DropTrailingEmpty(text)))

WellFormed(line) == Len(line) = Len(TsvHeader)
IllFormed(line) == ~WellFormed(line)

\* the row of a well-formed line: every header name with the line's field
RowOf(line) == [name \in {TsvHeader[j] : j \in 1..Len(TsvHeader)} |->
                   line[CHOOSE j \in 1..Len(TsvHeader) : TsvHeader[j] = name]]

\* C11 as stated: parse_tsv yields one row per well-formed data line, in
\* source order; a data line whose field count differs from the header's is
\* reported as malformed and is not made into a row (neither dropped in
\* silence, nor cut or padded), and the lines after it are still parsed.
C11_MalformedLinesReported ==
    (Parsed /\ tsv # <<EmptyLine>>) =>
        LET good == SelectSeq(DataLinesOf(tsv), WellFormed)
        IN /\ rows = [k \in 1..Len(good) |-> RowOf(good[k])]
           /\ malformed = SelectSeq(DataLinesOf(tsv), IllFormed)

(***************************************************************************)
(* Properties of two renderings                                            *)
(***************************************************************************)

\* C12 as stated: rendering is deterministic; two renderings of the same
\* rows, period, business name and thresholds, at any two moments, give the
\* same report, byte for byte.
C12_RenderingsIdentical ==
    (prev_report.rendered /\ phase = "rendered") => Report = prev_report

(***************************************************************************)
(* Properties of main                                                      *)
(***************************************************************************)

InConsole(line) == \E i \in 1..Len(console) : console[i] = line

\* C13 as stated: when the Metrica run cannot persist to the store because
\* of a local I/O error, only the persistence is lost: the report was
\* rendered and written, and its text is still printed to the console in
\* that run.
C13_StoreFailureKeepsReportOutput ==
    (script = "metrica" /\ mpc = "exited" /\ csv_out.kind = "raised") =>
        /\ phase = "rendered"
        /\ report_file = "written"
        /\ InConsole("report")

\* C14 as stated: every report request carries date_from <= date_to,
\* whatever --days is (0 and negative values included): a period with
\* date_from after date_to is rejected before any request is sent.
C14_RequestedPeriodOrdered ==
    \A i \in 1..Len(requested) : requested[i].date_from <= requested[i].date_to

\* a fetch of this run ended in an exception
FetchFailed ==
    \/ outcome.kind \in {"api_error", "timeout"}
    \/ mpc = "except_fetch"
    \/ InConsole("error_fetch")

\* C17: when one of the three Metrica fetches fails, or get_report of the
\* Direct run fails or times out, the run goes to the except handler and
\* ends with exit status 1; the report file and the store file are neither
\* created nor modified: they are as the run found them.
C17_FailedFetchWritesNothing ==
    FetchFailed =>
        /\ mpc \in {"except_fetch", "exited"}
        /\ mpc = "exited" => exit_code = 1
        /\ report_file = at_start.report_file
        /\ csv_exists = at_start.csv_exists
        /\ csv_lines = at_start.csv_lines

\* the third Metrica fetch failed after two answered ones, the run has
\* ended, and a store file and a report file were there before the run
C17_Witness ==
    /\ script = "metrica"
    /\ Len(requested) = 3
    /\ traffic # <<>>
    /\ InConsole("error_fetch")
    /\ mpc = "exited"
    /\ at_start.csv_exists
    /\ at_start.report_file = "old"

(***************************************************************************)
(* Properties of the rendered sections                                     *)
(***************************************************************************)

InSections(name) == \E i \in 1..Len(sections) : sections[i] = name

NonEmptyLine(line) == line # EmptyLine

\* the payload has no lines, or its header line only
HeaderOnly(text) == Len(SelectSeq(text, NonEmptyLine)) <= 1

\* C15: a report over an empty row set (Direct: a payload of the header
\* only or of no lines; Metrica: an empty traffic list) holds the no-data
\* notice and neither the summary nor a table; a report over a non-empty
\* row set holds the summary and the tables and not the notice.
C15_NoDataNoticeOrSections ==
    LET empty == IF script = "direct" THEN rows = <<>> ELSE traffic = <<>>
    IN /\ (Parsed /\ HeaderOnly(tsv)) => rows = <<>>
       /\ phase = "rendered" =>
            IF empty
            THEN /\ sections = <<"title", "no_data">>
                 /\ summary = NoData
                 /\ table = <<>> /\ src_table = <<>>
            ELSE /\ ~InSections("no_data")
                 /\ InSections("summary") /\ summary.kind = "totals"
                 /\ InSections("days")
                 /\ script = "direct" => (InSections("groups") /\ table # <<>>)
                 /\ script = "metrica" =>
                        /\ InSections("sources") <=> sources # <<>>
                        /\ InSections("queries") <=> queries # <<>>
                        /\ Len(src_table) = Len(sources)

\* a Direct payload of the header line and its line end was parsed into no
\* rows and rendered as the no-data notice
C15_Witness ==
    /\ script = "direct"
    /\ tsv = <<TsvHeader, EmptyLine>>
    /\ phase = "rendered"
    /\ rows = <<>>
    /\ InSections("no_data")

(***************************************************************************)
(* Properties of the store file's shape                                    *)
(***************************************************************************)

\* a line append_to_csv writes for a record: a date and the counts
DataLine(line) == Len(line) = Len(fieldnames) /\ line[1] \in Dates

\* C16: after any sequence of calls from an absent file, the file, whenever
\* it exists, is the fixed header line followed only by data lines: the
\* first call that writes a record writes the header before it, no later
\* call writes it again, and a call with no new record leaves the file as
\* it was, so it does not create it.
C16_HeaderOnceThenDataLines ==
    /\ csv_exists =>
          /\ Len(csv_lines) >= 2
          /\ csv_lines[1] = fieldnames
          /\ \A k \in 2..Len(csv_lines) : DataLine(csv_lines[k])
    /\ ~csv_exists => csv_lines = <<>>
    /\ (Called /\ csv_prev.exists) =>
          \A k \in (Len(csv_prev.lines) + 1)..Len(csv_lines) : DataLine(csv_lines[k])
    /\ (Called /\ csv_out.kind = "no_new") =>
          /\ new_rows(traffic, existing_dates(csv_prev.exists, csv_prev.lines)) = <<>>
          /\ csv_exists = csv_prev.exists
          /\ csv_lines = csv_prev.lines
    /\ (Called /\ new_rows(traffic, existing_dates(csv_prev.exists, csv_prev.lines)) = <<>>)
          => csv_out.kind = "no_new"

\* a call wrote a record into a file that an earlier call had created
C16_Witness ==
    /\ Called
    /\ csv_prev.exists
    /\ Len(csv_lines) > Len(csv_prev.lines)
    /\ csv_lines[1] = fieldnames
====
